---- MODULE Spec2Model ----
(***************************************************************************)
(* Model of the upload queue of the WhatsApp Drive bot (uploadQueue.js,    *)
(* here src/unnamed/part_001): UploadQueue.addToQueue, isDuplicate,        *)
(* processQueue and the worker that processQueue becomes after admission.  *)
(*                                                                         *)
(* Node runs one JavaScript job at a time, so every piece of code between  *)
(* two awaits is one atomic action.  An async call is a small process      *)
(* whose position (pc / wpc) is the await it is suspended at.              *)
(***************************************************************************)
EXTENDS Integers, Sequences, FiniteSets, TLC

\* ------------------------------------------------------------------ bounds
MaxSubmissions == 2      \* addToQueue calls in one run
MaxConcurrentArg == 2    \* the constructor is given 1..MaxConcurrentArg
MaxTime == 1             \* Date.now() returns 0..MaxTime
ScenarioSubmissions == 3 \* addToQueue calls in a run of SpecScenario
ProgressSubmissions == 1 \* addToQueue calls in a run of SpecProgress
MaxTicks == 6            \* progress events emitted for one item
MaxAdminCommands == 3    \* admin messages handled in a run of SpecAdmin
MaxHours == 2            \* hours the clock advances in a run of SpecAdmin
AdminSubmissions == 1    \* media messages submitted in a run of SpecAdmin
MaxDriveCalls == 2       \* uploadFileToDrive calls in a run of SpecDrive
MaxDeliveries == 3       \* deliveries of the one message in a run of SpecDedup
MaxUptime == 4           \* tens of seconds the clock advances in SpecDedup
StagingSubmissions == 2  \* media messages staged in a run of SpecStaging

\* ------------------------------------------------------------------ data
\* Strings the code concatenates or compares by prefix are sequences of
\* one-character strings.
Users == { <<"u">>, <<"u", "_", "a">> }
\* File contents.  They are numbered in the order in which they are first
\* submitted (see Submit).
Contents == { 1, 2 }
Filenames == { "f" }
\* The names of the files in TEMP_DIR.
TempNames == Filenames \cup { "g" }
NoFile == 0             \* no file at a path of TEMP_DIR

NoKey == << >>          \* null fileHash / userKey
NoTime == 0 - 1         \* null startedAt / completedAt
NoLink == 0             \* shareLink not set
NoError == "none"       \* error: null
NoRecord == [shareLink |-> NoLink, uploadTime |-> NoTime, filename |-> "none"]

\* Ids of the addToQueue calls (and of the items they create) in any of the
\* specifications below.
MaxIds ==
  IF MaxSubmissions >= ScenarioSubmissions /\ MaxSubmissions >= ProgressSubmissions
  THEN MaxSubmissions
  ELSE IF ScenarioSubmissions >= ProgressSubmissions
       THEN ScenarioSubmissions
       ELSE ProgressSubmissions

SubIds == 1 .. MaxIds

VARIABLES
  maxConcurrent,     \* this.maxConcurrent
  queue,             \* this.queue: sequence of item ids
  activeUploads,     \* this.activeUploads: set of item ids (Map keyed by id)
  completedUploads,  \* this.completedUploads: userKey -> record
  stats,             \* this.stats
  items,             \* the uploadItem objects, by id
  sub,               \* the addToQueue calls, by id
  nSub,              \* number of addToQueue calls made so far
  immediates,        \* pending setImmediate(() => this.processQueue())
  now,               \* the last value Date.now() returned
  adminUsers,        \* AdminSystem.adminUsers: normalized phone -> admin
  restrictedUsers,   \* AdminSystem.restrictedUsers: phone -> restriction
  userWarnings,      \* AdminSystem.userWarnings: phone -> warnings
  auditLogs,         \* AdminSystem.auditLogs
  auditHistory,      \* every entry ever handed to addAuditLog (history)
  clockHours,        \* new Date(), in whole hours
  nCmd,              \* number of admin messages handled so far
  mediaPending,      \* senders whose media message is being downloaded
  denied,            \* senders whose media message got "Access Denied"
  uploadFolderId,    \* googleDrive.js: the cached folder id
  driveFolders,      \* the upload folders that exist on Drive
  driveCalls,        \* the uploadFileToDrive calls, by id
  processedMessages, \* index.js: the Set of message keys
  dedupTimers,       \* pending setTimeout deletions: <<key, due>>
  cleanupDue,        \* when the setInterval cleanup runs next
  uptime,            \* the clock of index.js, in tens of seconds
  nDeliveries,       \* deliveries of the message so far
  handledAt,         \* uptime of each delivery that was handled (history)
  tempDir            \* TEMP_DIR: filename -> the message whose bytes it holds

queueVars == <<maxConcurrent, queue, activeUploads, completedUploads, stats,
               items, sub, nSub, immediates, now>>

adminVars == <<adminUsers, restrictedUsers, userWarnings, auditLogs,
               auditHistory, clockHours, nCmd, mediaPending, denied>>

driveVars == <<uploadFolderId, driveFolders, driveCalls>>

dedupVars == <<processedMessages, dedupTimers, cleanupDue, uptime,
               nDeliveries, handledAt>>

mediaVars == <<dedupVars, tempDir>>

vars == <<maxConcurrent, queue, activeUploads, completedUploads, stats,
          items, sub, nSub, immediates, now,
          adminUsers, restrictedUsers, userWarnings, auditLogs, auditHistory,
          clockHours, nCmd, mediaPending, denied,
          uploadFolderId, driveFolders, driveCalls,
          processedMessages, dedupTimers, cleanupDue, uptime, nDeliveries,
          handledAt, tempDir>>

\* ------------------------------------------------------------------ pure
\* generateFileHash: SHA-256 of the bytes as a fixed-length hex string.
\* Different contents give different digests (collision resistance).
HexDigit(c) == IF c = 1 THEN "a" ELSE "b"

generateFileHash(c) == << "0", HexDigit(c) >>

\* Mutant of UserKey: the key leaves the user out (duplicates are global).
UserKey_NoUser(userId, fileHash) == fileHash

\* `${userId}_${fileHash}`
UserKey(userId, fileHash) == userId \o << "_" >> \o fileHash

\* Date.now(): the clock never runs backwards, so a call returns the value
\* of the previous call or a later one.
ClockReadings == { t \in 0 .. MaxTime : t >= now }

\* shareLink returned by uploadFileToDrive for the upload of item i: Drive
\* creates a new file, with its own link, on every call.
DriveLink(i) == i

MapSet(m, k, v) == [x \in (DOMAIN m) \cup {k} |-> IF x = k THEN v ELSE m[x]]

\* Mutant of isDuplicate: a failed read yields the digest of no data instead
\* of no digest.
isDuplicate_HashOfNothing(userId, content, readable) ==
  LET fileHash == IF readable THEN generateFileHash(content)
                              ELSE generateFileHash(0)
      userKey == UserKey(userId, fileHash)
  IN  IF userKey \in DOMAIN completedUploads
      THEN [isDuplicate |-> TRUE, existingFile |-> completedUploads[userKey],
            fileHash |-> NoKey, userKey |-> NoKey]
      ELSE [isDuplicate |-> FALSE, existingFile |-> NoRecord,
            fileHash |-> fileHash, userKey |-> userKey]

\* isDuplicate(filePath, userId), after the hash is known (readable) or the
\* stream has failed (~readable).
isDuplicate(userId, content, readable) ==
  IF ~readable
  THEN [isDuplicate |-> FALSE, existingFile |-> NoRecord,
        fileHash |-> NoKey, userKey |-> NoKey]
  ELSE LET fileHash == generateFileHash(content)
           userKey == UserKey(userId, fileHash)
       IN  IF userKey \in DOMAIN completedUploads
           THEN [isDuplicate |-> TRUE, existingFile |-> completedUploads[userKey],
                 fileHash |-> NoKey, userKey |-> NoKey]
           ELSE [isDuplicate |-> FALSE, existingFile |-> NoRecord,
                 fileHash |-> fileHash, userKey |-> userKey]

\* ------------------------------------------------------------------ strings
\* Message bodies, phone numbers and role names are strings the code splits,
\* searches and compares: they are sequences of one-character strings.
Digits == { "0", "1", "2", "3", "4", "5", "6", "7", "8", "9" }

\* The value of a digit character.
DigitValue(c) ==
  CASE c = "0" -> 0 [] c = "1" -> 1 [] c = "2" -> 2 [] c = "3" -> 3
    [] c = "4" -> 4 [] c = "5" -> 5 [] c = "6" -> 6 [] c = "7" -> 7
    [] c = "8" -> 8 [] OTHER -> 9

\* key.startsWith(prefix)
StartsWith(key, prefix) ==
  /\ Len(key) >= Len(prefix)
  /\ SubSeq(key, 1, Len(prefix)) = prefix

\* str.includes(pattern)
Includes(str, pattern) ==
  \E k \in 1 .. Len(str) - Len(pattern) + 1 :
    SubSeq(str, k, k + Len(pattern) - 1) = pattern

\* The upper-case letters that occur in the messages below.
LowerOf(c) ==
  CASE c = "B" -> "b" [] c = "S" -> "s" [] OTHER -> c

\* str.toLowerCase()
ToLowerCase(str) == [k \in 1 .. Len(str) |-> LowerOf(str[k])]

\* The first position of a blank in str at or after k, or Len(str) + 1.
RECURSIVE NextBlank(_, _)
NextBlank(str, k) ==
  IF k > Len(str) \/ str[k] = " " THEN k ELSE NextBlank(str, k + 1)

\* str.split(' '), for the part of str that starts at position k.
RECURSIVE SplitFrom(_, _)
SplitFrom(str, k) ==
  LET b == NextBlank(str, k)
  IN  IF b > Len(str)
      THEN << SubSeq(str, k, Len(str)) >>
      ELSE << SubSeq(str, k, b - 1) >> \o SplitFrom(str, b + 1)

\* str.split(' ')
Split(str) == SplitFrom(str, 1)

\* parts.join(' ')
RECURSIVE Join(_)
Join(parts) ==
  IF parts = << >> THEN << >>
  ELSE IF Len(parts) = 1 THEN parts[1]
  ELSE parts[1] \o << " " >> \o Join(Tail(parts))

\* parts.slice(k) with zero-based k
SliceFrom(parts, k) == SubSeq(parts, k + 1, Len(parts))

\* parseInt(str): the number its leading digits spell, NaN if it has none.
\* A number is [nan |-> FALSE, n |-> value].
NaN == [nan |-> TRUE, n |-> 0]
RECURSIVE LeadingDigits(_, _)
LeadingDigits(str, acc) ==
  IF str = << >> \/ Head(str) \notin Digits
  THEN acc
  ELSE LeadingDigits(Tail(str), acc * 10 + DigitValue(Head(str)))

parseInt(str) ==
  IF str = << >> \/ Head(str) \notin Digits
  THEN NaN
  ELSE [nan |-> FALSE, n |-> LeadingDigits(str, 0)]

\* duration: null
NoDuration == [nan |-> FALSE, n |-> 0 - 1]

\* JavaScript truthiness of a duration: null, NaN and 0 are falsy.
Truthy(duration) ==
  /\ duration # NoDuration
  /\ ~duration.nan
  /\ duration.n # 0

\* ------------------------------------------------------------------ admin data
\* process.env.DEFAULT_ADMIN_PHONE || '916309513603@c.us'
DefaultAdminPhone ==
  << "9", "1", "6", "3", "0", "9", "5", "1", "3", "6", "0", "3", "@",
     "c", ".", "u", "s" >>

\* The name createDefaultAdmin gives the default admin.
DefaultAdminName ==
  << "K", "a", "r", "t", "h", "i", "k", " ", "(", "S", "u", "p", "e",
     "r", " ", "A", "d", "m", "i", "n", ")" >>

\* A second WhatsApp account, as msg.from spells it.
MemberPhone ==
  << "9", "1", "9", "0", "0", "0", "0", "0", "0", "0", "0", "1", "@",
     "c", ".", "u", "s" >>

SuffixCUs ==
  << "@", "c", ".", "u", "s" >>

Role_super_admin ==
  << "s", "u", "p", "e", "r", "_", "a", "d", "m", "i", "n" >>

Role_admin ==
  << "a", "d", "m", "i", "n" >>

Role_moderator ==
  << "m", "o", "d", "e", "r", "a", "t", "o", "r" >>

Role_viewer ==
  << "v", "i", "e", "w", "e", "r" >>

\* this.adminRoles after initializeDefaultRoles: role -> permissions.
adminRoles ==
  (Role_super_admin :> { "bot_control", "user_management", "system_config",
                         "upload_management", "health_monitoring",
                         "queue_control", "file_management",
                         "admin_management", "user_restriction",
                         "bot_shutdown", "emergency_control", "audit_logs" })
  @@ (Role_admin :> { "user_management", "upload_management",
                      "health_monitoring", "queue_control",
                      "user_restriction", "moderator_management" })
  @@ (Role_moderator :> { "upload_management", "health_monitoring",
                          "queue_view", "user_warning" })
  @@ (Role_viewer :> { "health_monitoring", "queue_view", "stats_view" })

\* phone.replace(/\D/g, '')
StripNonDigits(phone) == SelectSeq(phone, LAMBDA c : c \in Digits)

\* normalizePhoneNumber(phone)
normalizePhoneNumber(phone) ==
  LET cleanPhone == StripNonDigits(phone)
  IN  IF StartsWith(cleanPhone, << "9", "1" >>) /\ Len(cleanPhone) = 12
      THEN cleanPhone \o SuffixCUs
      ELSE IF Len(cleanPhone) = 10 /\ ~StartsWith(cleanPhone, << "9", "1" >>)
      THEN << "9", "1" >> \o cleanPhone \o SuffixCUs
      ELSE IF Includes(phone, SuffixCUs)
      THEN phone
      ELSE IF Includes(phone, << "@" >>) THEN phone ELSE phone \o SuffixCUs

MapDelete(m, k) == [x \in (DOMAIN m) \ {k} |-> m[x]]

\* ------------------------------------------------------------------ AdminSystem
\* The AdminSystem methods, as functions of the object's state a and of the
\* reading h of the clock.  A method returns the new state; one that throws
\* returns the state it found (every caller catches and replies).

\* entry of this.adminUsers
AdminUser(role, name, addedBy) ==
  [role |-> role, name |-> name, addedBy |-> addedBy]

\* The state createDefaultAdmin leaves when no configuration file exists.
NewAdminSystem ==
  [adminUsers |-> DefaultAdminPhone :>
                    AdminUser(Role_super_admin, DefaultAdminName, << >>),
   restrictedUsers |-> << >>,
   userWarnings |-> << >>,
   auditLogs |-> << >>,
   auditHistory |-> << >>]

isAdmin(a, phone) == normalizePhoneNumber(phone) \in DOMAIN a.adminUsers

getAdminUser(a, phone) == a.adminUsers[normalizePhoneNumber(phone)]

hasPermission(a, phone, permission) ==
  LET normalizedPhone == normalizePhoneNumber(phone)
  IN  /\ normalizedPhone \in DOMAIN a.adminUsers
      /\ a.adminUsers[normalizedPhone].role \in DOMAIN adminRoles
      /\ permission \in adminRoles[a.adminUsers[normalizedPhone].role]

hasAllPermissions(a, phone, permissions) ==
  \A p \in permissions : hasPermission(a, phone, p)

\* validateAdminCommand(phone, command, requiredPermissions = []).allowed
validateAdminCommand(a, phone, command, requiredPermissions) ==
  /\ isAdmin(a, phone)
  /\ ~(requiredPermissions # {} /\ ~hasAllPermissions(a, phone, requiredPermissions))

\* Mutant of SliceLast: the oldest entries are kept.
SliceLast_Oldest(log, n) == SubSeq(log, 1, IF Len(log) > n THEN n ELSE Len(log))

\* log.slice(-n)
SliceLast(log, n) ==
  SubSeq(log, IF Len(log) > n THEN Len(log) - n + 1 ELSE 1, Len(log))

\* `if (this.auditLogs.length > 1000)`
AuditLogLimit == 1000

\* addAuditLog(action, performedBy, details).  serial is the ordinal of the
\* call: it stands for the timestamp and the details that tell two entries
\* apart.
addAuditLog(a, action, performedBy, targetUser) ==
  LET logEntry == [action |-> action, performedBy |-> performedBy,
                   targetUser |-> targetUser,
                   serial |-> Len(a.auditHistory) + 1]
      pushed == Append(a.auditLogs, logEntry)
  IN  [a EXCEPT !.auditLogs = IF Len(pushed) > AuditLogLimit
                              THEN SliceLast(pushed, AuditLogLimit)
                              ELSE pushed,
                !.auditHistory = Append(@, logEntry)]

addAdmin(a, phone, role, name, addedBy) ==
  LET normalizedPhone == normalizePhoneNumber(phone)
  IN  IF role \notin DOMAIN adminRoles THEN a
      ELSE IF normalizedPhone \in DOMAIN a.adminUsers THEN a
      ELSE ([a EXCEPT !.adminUsers =
                       MapSet(@, normalizedPhone, AdminUser(role, name, addedBy))])

forceCreateAdmin(a, phone, role, name, addedBy) ==
  LET normalizedPhone == normalizePhoneNumber(phone)
  IN  IF role \notin DOMAIN adminRoles THEN a
      ELSE ([a EXCEPT !.adminUsers =
                       MapSet(MapDelete(@, normalizedPhone), normalizedPhone,
                              AdminUser(role, name, addedBy))])

removeAdmin(a, phone, removedBy) ==
  LET normalizedPhone == normalizePhoneNumber(phone)
  IN  IF normalizedPhone \notin DOMAIN a.adminUsers THEN a
      ELSE IF a.adminUsers[normalizedPhone].role = Role_super_admin THEN a
      ELSE ([a EXCEPT !.adminUsers = MapDelete(@, normalizedPhone)])

restrictUser(a, phone, reason, restrictedBy, duration, h) ==
  LET restriction == [reason |-> reason, restrictedBy |-> restrictedBy,
                      restrictedAt |-> h, duration |-> duration,
                      active |-> TRUE]
  IN  (addAuditLog(
        [a EXCEPT !.restrictedUsers = MapSet(@, phone, restriction)],
        "user_restricted", restrictedBy, phone))

unrestrictUser(a, phone, unrestrictedBy) ==
  IF phone \notin DOMAIN a.restrictedUsers THEN a
  ELSE (addAuditLog(
         [a EXCEPT !.restrictedUsers[phone].active = FALSE],
         "user_unrestricted", unrestrictedBy, phone))

\* isUserRestricted(phone): the answer and the state it leaves (an expired
\* restriction is switched off by the call).
isUserRestricted(a, phone, h) ==
  IF phone \notin DOMAIN a.restrictedUsers \/ ~a.restrictedUsers[phone].active
  THEN [a |-> a, restricted |-> FALSE]
  ELSE LET restriction == a.restrictedUsers[phone]
           hoursElapsed == h - restriction.restrictedAt
       IN  IF Truthy(restriction.duration)
              /\ hoursElapsed >= restriction.duration.n
           THEN [a |-> [a EXCEPT !.restrictedUsers[phone].active = FALSE],
                 restricted |-> FALSE]
           ELSE [a |-> a, restricted |-> TRUE]

warnUser(a, phone, reason, warnedBy) ==
  LET warning == [reason |-> reason, warnedBy |-> warnedBy]
      warnings == IF phone \in DOMAIN a.userWarnings
                  THEN a.userWarnings[phone] ELSE << >>
  IN  (addAuditLog(
        [a EXCEPT !.userWarnings = MapSet(@, phone, Append(warnings, warning))],
        "user_warned", warnedBy, phone))

\* ------------------------------------------------------------------ admin commands
\* str.trim(), for blanks
RECURSIVE TrimStart(_)
TrimStart(str) ==
  IF str # << >> /\ Head(str) = " " THEN TrimStart(Tail(str)) ELSE str

RECURSIVE TrimEnd(_)
TrimEnd(str) ==
  IF str # << >> /\ str[Len(str)] = " "
  THEN TrimEnd(SubSeq(str, 1, Len(str) - 1))
  ELSE str

Trim(str) == TrimEnd(TrimStart(str))

\* The handlers, up to the first await that follows the change of state:
\* what comes after (saveAdminConfig, the reply) changes no state of the
\* AdminSystem.  Each returns the new state.

handleAddAdminCommand(a, body, adminUser) ==
  LET parts == Split(body)
  IN  IF Len(parts) < 5 THEN a
      ELSE LET phone == parts[4]
               role == parts[5]
               name == Join(SliceFrom(parts, 5))
           IN  IF role = Role_super_admin /\ adminUser.role # Role_super_admin
               THEN a
               ELSE addAdmin(a, phone, role, name, adminUser.name)

handleRemoveAdminCommand(a, body, adminUser) ==
  LET parts == Split(body)
  IN  IF Len(parts) < 4 THEN a
      ELSE removeAdmin(a, parts[4], adminUser.name)

handleRestrictUserCommand(a, body, adminUser, h) ==
  LET parts == Split(body)
  IN  IF Len(parts) < 5 THEN a
      ELSE LET phone == parts[4]
               reason == parts[5]
               duration == IF Len(parts) >= 6 /\ parts[6] # << >>
                           THEN parseInt(parts[6])
                           ELSE NoDuration
           IN  restrictUser(a, phone, reason, adminUser.name, duration, h)

handleUnrestrictUserCommand(a, body, adminUser) ==
  LET parts == Split(body)
  IN  IF Len(parts) < 4 THEN a
      ELSE unrestrictUser(a, parts[4], adminUser.name)

handleWarnUserCommand(a, body, adminUser) ==
  LET parts == Split(body)
  IN  IF Len(parts) < 5 THEN a
      ELSE warnUser(a, parts[4], Join(SliceFrom(parts, 4)), adminUser.name)

handleForceCreateAdminCommand(a, body, adminUser) ==
  LET parts == Split(body)
  IN  IF Len(parts) < 5 THEN a
      ELSE forceCreateAdmin(a, parts[4], parts[5], Join(SliceFrom(parts, 5)),
                            adminUser.name)

\* The name of the handler handleAdminCommand hands the command to.
Dispatch(command) ==
  IF Includes(command,
            << "a", "d", "d", " ", "a", "d", "m", "i", "n" >>)
  THEN "handleAddAdminCommand"
  ELSE IF Includes(command,
            << "r", "e", "m", "o", "v", "e", " ", "a", "d", "m", "i", "n" >>)
  THEN "handleRemoveAdminCommand"
  ELSE IF Includes(command,
            << "l", "i", "s", "t", " ", "a", "d", "m", "i", "n", "s" >>)
  THEN "handleListAdminsCommand"
  ELSE IF Includes(command,
            << "r", "e", "s", "t", "r", "i", "c", "t", " ", "u", "s", "e", "r" >>)
  THEN "handleRestrictUserCommand"
  ELSE IF Includes(command,
            << "u", "n", "r", "e", "s", "t", "r", "i", "c", "t", " ", "u", "s", "e", "r" >>)
  THEN "handleUnrestrictUserCommand"
  ELSE IF Includes(command,
            << "w", "a", "r", "n", " ", "u", "s", "e", "r" >>)
  THEN "handleWarnUserCommand"
  ELSE IF Includes(command,
            << "l", "i", "s", "t", " ", "r", "e", "s", "t", "r", "i", "c", "t", "e", "d" >>)
  THEN "handleListRestrictedCommand"
  ELSE IF Includes(command,
            << "a", "u", "d", "i", "t", " ", "l", "o", "g", "s" >>)
  THEN "handleAuditLogsCommand"
  ELSE IF Includes(command,
            << "s", "y", "s", "t", "e", "m", " ", "s", "t", "a", "t", "u", "s" >>)
  THEN "handleSystemStatusCommand"
  ELSE IF Includes(command,
            << "t", "e", "s", "t", " ", "a", "c", "c", "e", "s", "s" >>)
  THEN "handleTestAdminAccessCommand"
  ELSE IF Includes(command,
            << "f", "o", "r", "c", "e", " ", "c", "r", "e", "a", "t", "e", " ", "a", "d", "m", "i", "n" >>)
  THEN "handleForceCreateAdminCommand"
  ELSE "help"

\* handleAdminCommand(msg), msg.from = from and msg.body = body.
handleAdminCommand(a, from, body, h) ==
  LET command == Trim(ToLowerCase(body))
      handler == Dispatch(command)
  IN  IF ~validateAdminCommand(a, from, "admin_management", {}) THEN a
      ELSE LET adminUser == getAdminUser(a, from)
           IN  CASE handler = "handleAddAdminCommand" ->
                      handleAddAdminCommand(a, body, adminUser)
                 [] handler = "handleRemoveAdminCommand" ->
                      handleRemoveAdminCommand(a, body, adminUser)
                 [] handler = "handleRestrictUserCommand" ->
                      handleRestrictUserCommand(a, body, adminUser, h)
                 [] handler = "handleUnrestrictUserCommand" ->
                      handleUnrestrictUserCommand(a, body, adminUser)
                 [] handler = "handleWarnUserCommand" ->
                      handleWarnUserCommand(a, body, adminUser)
                 [] handler = "handleForceCreateAdminCommand" ->
                      handleForceCreateAdminCommand(a, body, adminUser)
                 [] OTHER -> a

\* ------------------------------------------------------------------ drive data
\* `let uploadFolderId = null`
NoFolder == 0

DriveCallIds == 1 .. MaxDriveCalls

\* pc: the await the call is suspended at; folderId: its local folderId.
NoDriveCall == [pc |-> "idle", folderId |-> NoFolder]

\* The id of a whatsapp-bot-upload folder that an earlier run left on Drive.
ExistingFolder == 1

\* The id Drive gives the next folder it creates.
NewFolderId == Cardinality(driveFolders) + 2

\* ------------------------------------------------------------------ message data
\* index.js keeps time in milliseconds (Date.now(), the timer delays); the
\* model's clock, uptime, advances in steps of ten seconds.
MESSAGE_DEDUP_TIMEOUT == 30000
CleanupInterval == 60000

\* A timer delay in steps of the clock.
ClockSteps(ms) == ms \div 10000

\* Unix time, in seconds, of the instant at which uptime = 0.
EpochSeconds == 1700000

\* Date.now() at uptime t: Unix time in milliseconds.
DateNow(t) == (EpochSeconds + t * 10) * 1000

\* The key of the message that is delivered repeatedly,
\* `${msg.from}_${msg.id._serialized}_${msg.timestamp}`, kept as its parts.
\* msg.timestamp is the Unix time in SECONDS at which the message was
\* created (whatsapp-web.js); the message is created at uptime 0.
MessageKey == << <<"u">>, <<"m">>, EpochSeconds >>

\* now - parseInt(timestamp) > MESSAGE_DEDUP_TIMEOUT (lines 74-75);
\* timestamp is messageKey.split('_').slice(-1), the last part of the key.
Expired(key, t) == DateNow(t) - key[Len(key)] > MESSAGE_DEDUP_TIMEOUT

\* ------------------------------------------------------------------ init
NoSub == [pc |-> "idle", userId |-> << >>, content |-> 0, filename |-> "none",
          isDuplicate |-> FALSE, existingFile |-> NoRecord,
          fileHash |-> NoKey, userKey |-> NoKey, seen |-> {},
          readable |-> FALSE, removedBy |-> {},
          position |-> 0, result |-> "none"]

NoItem == [status |-> "none", userId |-> << >>, filename |-> "none",
           fileHash |-> NoKey, userKey |-> NoKey, progress |-> 0,
           startedAt |-> NoTime, completedAt |-> NoTime,
           error |-> NoError, shareLink |-> NoLink,
           arrival |-> 0, wpc |-> "none", rescheduled |-> FALSE,
           uploadCalls |-> 0, notices |-> {}, timer |-> "none", emitted |-> 0]

\* new AdminSystem(dataDir), once loadAdminConfig has found no file and
\* created the default admin; no message handled yet.
AdminInit ==
  /\ adminUsers = NewAdminSystem.adminUsers
  /\ restrictedUsers = NewAdminSystem.restrictedUsers
  /\ userWarnings = NewAdminSystem.userWarnings
  /\ auditLogs = NewAdminSystem.auditLogs
  /\ auditHistory = NewAdminSystem.auditHistory
  /\ clockHours = 0
  /\ nCmd = 0
  /\ mediaPending = {}
  /\ denied = {}

\* googleDrive.js once loaded: nothing cached, no call made, no folder
\* ever created.
DriveIdle ==
  /\ uploadFolderId = NoFolder
  /\ driveFolders = {}
  /\ driveCalls = [c \in DriveCallIds |-> NoDriveCall]

\* index.js once loaded: no message seen, the first periodic cleanup one
\* interval away.
MediaIdle ==
  /\ processedMessages = {}
  /\ dedupTimers = << >>
  /\ cleanupDue = ClockSteps(CleanupInterval)
  /\ uptime = 0
  /\ nDeliveries = 0
  /\ handledAt = << >>
  /\ tempDir = [f \in TempNames |-> NoFile]

\* new UploadQueue(maxConcurrent)
QueueInit(limits) ==
  /\ maxConcurrent \in limits
  /\ queue = << >>
  /\ activeUploads = {}
  /\ completedUploads = << >>
  /\ stats = [total |-> 0, completed |-> 0, failed |-> 0, inProgress |-> 0]
  /\ items = [i \in SubIds |-> NoItem]
  /\ sub = [s \in SubIds |-> NoSub]
  /\ nSub = 0
  /\ immediates = 0
  /\ now = 0

Init ==
  /\ AdminInit
  /\ DriveIdle
  /\ MediaIdle
  /\ QueueInit(1 .. MaxConcurrentArg)

\* ------------------------------------------------------------------ addToQueue
\* The media handler has staged the file and invokes addToQueue(uploadData);
\* the call runs up to the await of generateFileHash inside isDuplicate.
\* limit bounds the number of calls in a run.
StartCall(limit, userId, content, filename) ==
  /\ nSub < limit
  /\ content <= Cardinality({ sub[s].content : s \in 1 .. nSub }) + 1
  /\ nSub' = nSub + 1
  /\ sub' = [sub EXCEPT ![nSub + 1] =
               [@ EXCEPT !.pc = "hashing", !.userId = userId,
                         !.content = content, !.filename = filename]]
  /\ UNCHANGED <<maxConcurrent, queue, activeUploads, completedUploads, stats,
                 items, immediates, now>>

Submit(userId, content, filename) ==
  StartCall(MaxSubmissions, userId, content, filename)

\* The hash stream ends or errors; isDuplicate looks the key up and returns.
\* seen and readable (history, not program state) keep the keys the table
\* held then and whether the stream could be read.
HashSettles(s, readable) ==
  /\ sub[s].pc = "hashing"
  /\ LET d == isDuplicate(sub[s].userId, sub[s].content, readable)
     IN  sub' = [sub EXCEPT ![s] =
                   [@ EXCEPT !.pc = "checked", !.isDuplicate = d.isDuplicate,
                             !.existingFile = d.existingFile,
                             !.fileHash = d.fileHash, !.userKey = d.userKey,
                             !.seen = DOMAIN completedUploads,
                             !.readable = readable]]
  /\ UNCHANGED <<maxConcurrent, queue, activeUploads, completedUploads, stats,
                 items, nSub, immediates, now>>

\* uploadItem = {...}
NewItem(s, arrival) ==
  [NoItem EXCEPT !.status = "queued", !.userId = sub[s].userId,
                 !.filename = sub[s].filename,
                 !.fileHash = sub[s].fileHash, !.userKey = sub[s].userKey,
                 !.arrival = arrival]

\* Mutant of QueuePosition: the ordinal of the submission (items in the
\* active set are counted too).
QueuePosition_Ordinal(q) == stats.total + 1

\* `Position: ${this.queue.length}`, read after the push: q is the queue
\* with the new item in it.
QueuePosition(q) == Len(q)

\* addToQueue resumes after `await this.isDuplicate(...)`: the duplicate
\* branch sends its notice; otherwise the item is pushed, total++ and the
\* queued acknowledgment is sent.
AfterDuplicateCheck(s) ==
  /\ sub[s].pc = "checked"
  /\ IF sub[s].isDuplicate
     THEN /\ sub' = [sub EXCEPT ![s].pc = "replyDuplicate"]
          /\ UNCHANGED <<queue, stats, items>>
     ELSE /\ queue' = Append(queue, s)
          /\ stats' = [stats EXCEPT !.total = @ + 1]
          /\ items' = [items EXCEPT ![s] = NewItem(s, stats.total + 1)]
          /\ sub' = [sub EXCEPT ![s] =
                       [@ EXCEPT !.pc = "replyQueued",
                                 !.position = QueuePosition(Append(queue, s))]]
  /\ UNCHANGED <<maxConcurrent, activeUploads, completedUploads, nSub,
                 immediates, now>>

\* `await originalMessage.reply(duplicate notice)` settles.  Delivered: the
\* call returns 'duplicate' and the media handler (index.js) removes the
\* staged file.  Thrown: nothing in addToQueue catches it, the call rejects
\* and the handler's catch only replies.
\* removedBy (history) names the places that called remove on the staged
\* file of this submission.
ReplyDuplicate(s, delivered) ==
  /\ sub[s].pc = "replyDuplicate"
  /\ sub' = [sub EXCEPT ![s] =
               IF delivered
               THEN [@ EXCEPT !.pc = "handlerRemoving", !.result = "duplicate",
                              !.removedBy = @ \cup {"handler"}]
               ELSE [@ EXCEPT !.pc = "settled", !.result = "rejected"]]
  /\ UNCHANGED <<maxConcurrent, queue, activeUploads, completedUploads, stats,
                 items, nSub, immediates, now>>

\* The handler's `await fsExtra.remove(tempFilePath)` settles (an error is
\* caught and logged).
HandlerRemoveSettles(s) ==
  /\ sub[s].pc = "handlerRemoving"
  /\ sub' = [sub EXCEPT ![s].pc = "settled"]
  /\ UNCHANGED <<maxConcurrent, queue, activeUploads, completedUploads, stats,
                 items, nSub, immediates, now>>

\* ------------------------------------------------------------------ processQueue
\* Mutant of AtCapacity: > for >=.
AtCapacity_OffByOne == Cardinality(activeUploads) > maxConcurrent

\* this.activeUploads.size >= this.maxConcurrent
AtCapacity == Cardinality(activeUploads) >= maxConcurrent

\* Mutant of Shift: pop() for shift().
Shift_Pop(q) == [item |-> q[Len(q)], rest |-> SubSeq(q, 1, Len(q) - 1)]

\* Mutant of Shift: the head is read but stays in the queue.
Shift_Peek(q) == [item |-> Head(q), rest |-> q]

\* this.queue.shift(): the item taken and the queue left
Shift(q) == [item |-> Head(q), rest |-> Tail(q)]

\* Admission: status, startedAt, simulateProgress(uploadItem) starts the
\* interval timer and uploadFileToDrive is called (uploadCalls, history,
\* counts the calls).
Admit(it, t) == [it EXCEPT !.status = "processing", !.startedAt = t,
                           !.wpc = "uploading", !.timer = "running",
                           !.uploadCalls = @ + 1]

\* The synchronous part of processQueue(): up to `await uploadFileToDrive`.
ProcessQueue ==
  IF AtCapacity \/ Len(queue) = 0
  THEN UNCHANGED <<queue, activeUploads, stats, items, now>>
  ELSE LET sh == Shift(queue)
       IN  \E t \in ClockReadings :
             /\ now' = t
             /\ queue' = sh.rest
             /\ items' = [items EXCEPT ![sh.item] = Admit(@, t)]
             /\ activeUploads' = activeUploads \cup {sh.item}
             /\ stats' = [stats EXCEPT !.inProgress = @ + 1]

\* `await originalMessage.reply(queued acknowledgment)` settles.  Delivered:
\* processQueue() is called and the call returns 'queued'.  Thrown: the call
\* rejects before processQueue() is reached.
ReplyQueued(s, delivered) ==
  /\ sub[s].pc = "replyQueued"
  /\ sub' = [sub EXCEPT ![s] =
               [@ EXCEPT !.pc = "settled",
                         !.result = IF delivered THEN "queued" ELSE "rejected"]]
  /\ IF delivered
     THEN ProcessQueue
     ELSE UNCHANGED <<queue, activeUploads, stats, items, now>>
  /\ UNCHANGED <<maxConcurrent, completedUploads, nSub, immediates>>

\* The setImmediate callback runs processQueue().
RunImmediate ==
  /\ immediates > 0
  /\ immediates' = immediates - 1
  /\ ProcessQueue
  /\ UNCHANGED <<maxConcurrent, completedUploads, sub, nSub>>

\* ------------------------------------------------------------------ worker
\* try: this.stats.inProgress--; this.stats.completed++
StatsCompleted(st) == [st EXCEPT !.inProgress = @ - 1, !.completed = @ + 1]

\* Mutant of StatsFailed: the catch block forgets stats.inProgress--.
StatsFailed_NoDecrement(st) == [st EXCEPT !.failed = @ + 1]

\* catch: this.stats.inProgress--; this.stats.failed++
StatsFailed(st) == [st EXCEPT !.inProgress = @ - 1, !.failed = @ + 1]

\* this.completedUploads.set(uploadItem.userKey, {...})
RecordCompleted(m, it) ==
  IF it.userKey # NoKey
  THEN MapSet(m, it.userKey, [shareLink |-> it.shareLink,
                               uploadTime |-> it.completedAt,
                               filename |-> it.filename])
  ELSE m

\* uploadFileToDrive resolved: the try block up to the completion reply.
UploadResolves(i) ==
  /\ items[i].wpc = "uploading"
  /\ \E t \in ClockReadings :
       LET done == [items[i] EXCEPT !.status = "completed", !.progress = 100,
                                    !.completedAt = t,
                                    !.shareLink = DriveLink(i),
                                    !.wpc = "replyCompleted"]
       IN  /\ now' = t
           /\ items' = [items EXCEPT ![i] = done]
           /\ completedUploads' = RecordCompleted(completedUploads, done)
  /\ activeUploads' = activeUploads \ {i}
  /\ stats' = StatsCompleted(stats)
  /\ UNCHANGED <<maxConcurrent, queue, sub, nSub, immediates>>

\* Mutant of FailItem: the catch block marks every item failed that is in
\* the active set.
FailItem_AllActive(its, i, msg, t) ==
  [j \in DOMAIN its |->
     IF j = i
     THEN [its[j] EXCEPT !.status = "failed", !.error = msg,
                         !.completedAt = t, !.wpc = "replyFailed"]
     ELSE IF its[j].status = "processing"
          THEN [its[j] EXCEPT !.status = "failed", !.error = msg]
          ELSE its[j]]

\* catch: uploadItem.status = 'failed'; error = error.message;
\* completedAt = Date.now()
FailItem(its, i, msg, t) ==
  [its EXCEPT ![i] = [@ EXCEPT !.status = "failed", !.error = msg,
                               !.completedAt = t, !.wpc = "replyFailed"]]

\* The catch block up to the failure reply, entered with error message msg.
Catch(i, msg) ==
  /\ \E t \in ClockReadings :
       /\ now' = t
       /\ items' = FailItem(items, i, msg, t)
  /\ activeUploads' = activeUploads \ {i}
  /\ stats' = StatsFailed(stats)

\* uploadFileToDrive rejected.
UploadRejects(i) ==
  /\ items[i].wpc = "uploading"
  /\ Catch(i, "UploadError")
  /\ UNCHANGED <<maxConcurrent, queue, completedUploads, sub, nSub, immediates>>

\* The completion reply settles.  Delivered: fs.remove(filePath) is called.
\* Thrown: the await is inside the try block, so the catch block runs for
\* this item.  notices (history) keeps the terminal messages delivered.
ReplyCompleted(i, delivered) ==
  /\ items[i].wpc = "replyCompleted"
  /\ IF delivered
     THEN /\ items' = [items EXCEPT ![i] =
                         [@ EXCEPT !.wpc = "removing",
                                   !.notices = @ \cup {"completed"}]]
          /\ sub' = [sub EXCEPT ![i].removedBy = @ \cup {"queue"}]
          /\ UNCHANGED <<activeUploads, stats, now>>
     ELSE /\ Catch(i, "NotificationError")
          /\ UNCHANGED sub
  /\ UNCHANGED <<maxConcurrent, queue, completedUploads, nSub, immediates>>

\* Line 199: setImmediate(() => this.processQueue()), then the worker ends.
Reschedule(i) ==
  /\ items' = [items EXCEPT ![i] = [@ EXCEPT !.wpc = "done", !.rescheduled = TRUE]]
  /\ immediates' = immediates + 1

\* `await fs.remove(filePath)` settles (its own try/catch swallows an error).
RemoveSettles(i) ==
  /\ items[i].wpc = "removing"
  /\ Reschedule(i)
  /\ UNCHANGED <<maxConcurrent, queue, activeUploads, completedUploads, stats,
                 sub, nSub, now>>

\* The failure reply settles.  Thrown: nothing catches it, processQueue()
\* rejects and line 199 is not reached.  No caller awaits that promise (lines
\* 111, 199), so the rejection is unhandled; where Node ends the process on
\* it the queue object is lost, otherwise it stays as the throw left it,
\* which is the state kept here.
ReplyFailed(i, delivered) ==
  /\ items[i].wpc = "replyFailed"
  /\ IF delivered
     THEN /\ items' = [items EXCEPT ![i] =
                         [@ EXCEPT !.wpc = "done", !.rescheduled = TRUE,
                                   !.notices = @ \cup {"failed"}]]
          /\ immediates' = immediates + 1
     ELSE /\ items' = [items EXCEPT ![i].wpc = "rejected"]
          /\ UNCHANGED immediates
  /\ UNCHANGED <<maxConcurrent, queue, activeUploads, completedUploads, stats,
                 sub, nSub, now>>

\* ------------------------------------------------------------------ spec
DoSubmit ==
  /\ \E u \in Users, c \in Contents, f \in Filenames : Submit(u, c, f)
  /\ UNCHANGED <<adminVars, driveVars, mediaVars>>
DoHashSettles ==
  /\ \E s \in SubIds, r \in BOOLEAN : HashSettles(s, r)
  /\ UNCHANGED <<adminVars, driveVars, mediaVars>>
DoAfterDuplicateCheck ==
  /\ \E s \in SubIds : AfterDuplicateCheck(s)
  /\ UNCHANGED <<adminVars, driveVars, mediaVars>>
DoReplyDuplicate ==
  /\ \E s \in SubIds, d \in BOOLEAN : ReplyDuplicate(s, d)
  /\ UNCHANGED <<adminVars, driveVars, mediaVars>>
DoHandlerRemoveSettles ==
  /\ \E s \in SubIds : HandlerRemoveSettles(s)
  /\ UNCHANGED <<adminVars, driveVars, mediaVars>>
DoRunImmediate == RunImmediate /\ UNCHANGED <<adminVars, driveVars, mediaVars>>
DoReplyQueued ==
  /\ \E s \in SubIds, d \in BOOLEAN : ReplyQueued(s, d)
  /\ UNCHANGED <<adminVars, driveVars, mediaVars>>
DoUploadResolves ==
  /\ \E i \in SubIds : UploadResolves(i)
  /\ UNCHANGED <<adminVars, driveVars, mediaVars>>
DoUploadRejects ==
  /\ \E i \in SubIds : UploadRejects(i)
  /\ UNCHANGED <<adminVars, driveVars, mediaVars>>
DoReplyCompleted ==
  /\ \E i \in SubIds, d \in BOOLEAN : ReplyCompleted(i, d)
  /\ UNCHANGED <<adminVars, driveVars, mediaVars>>
DoRemoveSettles ==
  /\ \E i \in SubIds : RemoveSettles(i)
  /\ UNCHANGED <<adminVars, driveVars, mediaVars>>
DoReplyFailed ==
  /\ \E i \in SubIds, d \in BOOLEAN : ReplyFailed(i, d)
  /\ UNCHANGED <<adminVars, driveVars, mediaVars>>

Next ==
  \/ DoSubmit
  \/ DoHashSettles
  \/ DoAfterDuplicateCheck
  \/ DoReplyDuplicate
  \/ DoHandlerRemoveSettles
  \/ DoReplyQueued
  \/ DoRunImmediate
  \/ DoUploadResolves
  \/ DoUploadRejects
  \/ DoReplyCompleted
  \/ DoRemoveSettles
  \/ DoReplyFailed

Spec == Init /\ [][Next]_vars

\* ------------------------------------------------------------------ status
\* getStatus(): the numbers it reports (the item lists are left out).
getStatus ==
  [queueLength |-> Len(queue),
   activeUploads |-> Cardinality(activeUploads),
   maxConcurrent |-> maxConcurrent,
   stats |-> stats]

\* getUserStatus(userId)
getUserStatus(userId) ==
  LET userQueue == { k \in 1 .. Len(queue) : items[queue[k]].userId = userId }
      userActive == { i \in activeUploads : items[i].userId = userId }
      userCompleted == { key \in DOMAIN completedUploads :
                           StartsWith(key, userId \o << "_" >>) }
  IN  [queue |-> Cardinality(userQueue),
       active |-> Cardinality(userActive),
       completed |-> Cardinality(userCompleted),
       total |-> Cardinality(userQueue) + Cardinality(userActive)
                   + Cardinality(userCompleted)]

\* maxAge of clearOldCompletedUploads (24 hours) in units of the model's
\* clock: one unit is longer than maxAge, so a record is old as soon as the
\* clock has moved on since its uploadTime.
CleanupAge == 0

\* Mutant of clearOldCompletedUploads: >= for >, a record whose age is
\* exactly maxAge goes too.
clearOldCompletedUploads_AtLeast(m, t) ==
  [k \in { x \in DOMAIN m : ~(t - m[x].uploadTime >= CleanupAge) } |-> m[k]]

\* clearOldCompletedUploads(maxAge) at clock reading t: the table without
\* the records with t - uploadTime > maxAge.  Nothing in the program calls
\* it (no timer, no command, no step of the queue), so no action does.
clearOldCompletedUploads(m, t) ==
  [k \in { x \in DOMAIN m : ~(t - m[x].uploadTime > CleanupAge) } |-> m[k]]

\* ------------------------------------------------------------------ health
\* healthMonitor.js, performHealthCheck: metrics.uploadStats.successRate,
\* ((completed / total) * 100).toFixed(2) or 100 when total is 0, kept in
\* hundredths of a percent (toFixed(2) rounds to the nearest hundredth).
successRate(queueStatus) ==
  IF queueStatus.stats.total > 0
  THEN (queueStatus.stats.completed * 20000 + queueStatus.stats.total)
         \div (2 * queueStatus.stats.total)
  ELSE 10000

\* assessHealth: parseFloat(successRate) < 80 pushes the issue
\* `Low upload success rate`.
LowSuccessRateIssue(queueStatus) == successRate(queueStatus) < 8000

\* ------------------------------------------------------------------ scenario
\* Three submissions, none a duplicate of another, made in a fixed order to
\* a queue constructed with maxConcurrent = 2.  A call starts once the item
\* of the call before it is in the backlog, so the items arrive in the
\* order of the calls.
ScenarioInput(k) ==
  [userId |-> IF k <= 2 THEN << "u" >> ELSE << "u", "_", "a" >>,
   content |-> IF k % 2 = 1 THEN 1 ELSE 2]

\* new UploadQueue(2); the clock readings play no part in the scenario, so
\* the clock starts at its last value.
InitScenario ==
  /\ AdminInit
  /\ DriveIdle
  /\ MediaIdle
  /\ maxConcurrent = 2
  /\ queue = << >>
  /\ activeUploads = {}
  /\ completedUploads = << >>
  /\ stats = [total |-> 0, completed |-> 0, failed |-> 0, inProgress |-> 0]
  /\ items = [i \in SubIds |-> NoItem]
  /\ sub = [s \in SubIds |-> NoSub]
  /\ nSub = 0
  /\ immediates = 0
  /\ now = MaxTime

ScenarioSubmit ==
  /\ nSub < ScenarioSubmissions
  /\ nSub > 0 => sub[nSub].pc \notin {"hashing", "checked"}
  /\ \E f \in Filenames :
       StartCall(ScenarioSubmissions, ScenarioInput(nSub + 1).userId,
                 ScenarioInput(nSub + 1).content, f)
  /\ UNCHANGED <<adminVars, driveVars, mediaVars>>

NextScenario ==
  \/ ScenarioSubmit
  \/ DoHashSettles
  \/ DoAfterDuplicateCheck
  \/ DoReplyQueued
  \/ DoRunImmediate
  \/ DoUploadResolves
  \/ DoUploadRejects
  \/ DoReplyCompleted
  \/ DoRemoveSettles
  \/ DoReplyFailed

SpecScenario == InitScenario /\ [][NextScenario]_vars

\* ------------------------------------------------------------------ progress
\* simulateProgress(uploadItem): the interval callback, run by the timer
\* once a second for as long as the interval is not cleared.

\* Math.random() * 15 + 5 lies in [5, 20): the smallest and the largest
\* whole step.
ProgressSteps == { 5, 19 }

\* Mutant of CapProgress: the high-water mark is not enforced.
CapProgress_NoCap(p) == p

\* `if (uploadItem.progress > 90) uploadItem.progress = 90`
CapProgress(p) == IF p > 90 THEN 90 ELSE p

\* Mutant of TickerStops: the callback does not look at the status.
TickerStops_Never(it) == FALSE

\* `if (uploadItem.status !== 'processing')`: clearInterval and return
TickerStops(it) == it.status # "processing"

\* One run of the interval callback for item i.  emitted (history) counts
\* the 'progress' events emitted for the item.
ProgressTick(i) ==
  /\ items[i].timer = "running"
  /\ IF TickerStops(items[i])
     THEN items' = [items EXCEPT ![i].timer = "cleared"]
     ELSE /\ items[i].emitted < MaxTicks
          /\ \E step \in ProgressSteps :
               items' = [items EXCEPT ![i] =
                           [@ EXCEPT !.progress = IF @ < 90
                                                  THEN CapProgress(@ + step)
                                                  ELSE @,
                                     !.emitted = @ + 1]]
  /\ UNCHANGED <<maxConcurrent, queue, activeUploads, completedUploads, stats,
                 sub, nSub, immediates, now>>

DoProgressTick ==
  /\ \E i \in SubIds : ProgressTick(i)
  /\ UNCHANGED <<adminVars, driveVars, mediaVars>>

ProgressSubmit ==
  /\ \E u \in Users, c \in Contents, f \in Filenames :
       StartCall(ProgressSubmissions, u, c, f)
  /\ UNCHANGED <<adminVars, driveVars, mediaVars>>

NextProgress ==
  \/ ProgressSubmit
  \/ DoHashSettles
  \/ DoAfterDuplicateCheck
  \/ DoReplyQueued
  \/ DoRunImmediate
  \/ DoUploadResolves
  \/ DoUploadRejects
  \/ DoReplyCompleted
  \/ DoRemoveSettles
  \/ DoReplyFailed
  \/ DoProgressTick

SpecProgress == Init /\ [][NextProgress]_vars

\* ------------------------------------------------------------------ admin messages
\* The admin messages of the runs: the documented form of every command that
\* changes state, the restriction with and without a duration, one read-only
\* command, and a force-create whose words are in another order.
Body_Unrestrict ==
  << ".", "a", "d", "m", "i", "n", " ", "u", "n", "r", "e", "s", "t",
     "r", "i", "c", "t", " ", "u", "s", "e", "r", " ", "9", "1", "9",
     "0", "0", "0", "0", "0", "0", "0", "0", "1", "@", "c", ".", "u",
     "s" >>

AdminBodies ==
  { << ".", "a", "d", "m", "i", "n", " ", "a", "d", "d", " ", "a", "d",
       "m", "i", "n", " ", "9", "0", "0", "0", "0", "0", "0", "0", "0",
       "1", " ", "v", "i", "e", "w", "e", "r", " ", "B", "o", "b" >>,
    << ".", "a", "d", "m", "i", "n", " ", "a", "d", "d", " ", "a", "d",
       "m", "i", "n", " ", "9", "1", "9", "0", "0", "0", "0", "0", "0",
       "0", "0", "1", "@", "c", ".", "u", "s", " ", "m", "o", "d", "e",
       "r", "a", "t", "o", "r", " ", "B", "o", "b" >>,
    << ".", "a", "d", "m", "i", "n", " ", "a", "d", "d", " ", "a", "d",
       "m", "i", "n", " ", "9", "1", "9", "0", "0", "0", "0", "0", "0",
       "0", "0", "1", "@", "c", ".", "u", "s", " ", "s", "u", "p", "e",
       "r", "_", "a", "d", "m", "i", "n", " ", "B", "o", "b" >>,
    << ".", "a", "d", "m", "i", "n", " ", "r", "e", "m", "o", "v", "e",
       " ", "a", "d", "m", "i", "n", " ", "9", "1", "9", "0", "0", "0",
       "0", "0", "0", "0", "0", "1", "@", "c", ".", "u", "s" >>,
    << ".", "a", "d", "m", "i", "n", " ", "r", "e", "s", "t", "r", "i",
       "c", "t", " ", "u", "s", "e", "r", " ", "9", "1", "9", "0", "0",
       "0", "0", "0", "0", "0", "0", "1", "@", "c", ".", "u", "s", " ",
       "S", "p", "a", "m" >>,
    << ".", "a", "d", "m", "i", "n", " ", "r", "e", "s", "t", "r", "i",
       "c", "t", " ", "u", "s", "e", "r", " ", "9", "1", "9", "0", "0",
       "0", "0", "0", "0", "0", "0", "1", "@", "c", ".", "u", "s", " ",
       "S", "p", "a", "m", " ", "1" >>,
    << ".", "a", "d", "m", "i", "n", " ", "r", "e", "s", "t", "r", "i",
       "c", "t", " ", "u", "s", "e", "r", " ", "9", "1", "9", "0", "0",
       "0", "0", "0", "0", "0", "0", "1", "@", "c", ".", "u", "s", " ",
       "S", "p", "a", "m", " ", "0" >>,
    Body_Unrestrict,
    << ".", "a", "d", "m", "i", "n", " ", "w", "a", "r", "n", " ", "u",
       "s", "e", "r", " ", "9", "1", "9", "0", "0", "0", "0", "0", "0",
       "0", "0", "1", "@", "c", ".", "u", "s", " ", "S", "p", "a", "m" >>,
    << ".", "a", "d", "m", "i", "n", " ", "f", "o", "r", "c", "e", " ",
       "c", "r", "e", "a", "t", "e", " ", "a", "d", "m", "i", "n", " ",
       "9", "1", "9", "0", "0", "0", "0", "0", "0", "0", "0", "1", "@",
       "c", ".", "u", "s", " ", "s", "u", "p", "e", "r", "_", "a", "d",
       "m", "i", "n", " ", "B", "o", "b" >>,
    << ".", "a", "d", "m", "i", "n", " ", "f", "o", "r", "c", "e", " ",
       "c", "r", "e", "a", "t", "e", " ", "9", "1", "9", "0", "0", "0",
       "0", "0", "0", "0", "0", "1", "@", "c", ".", "u", "s", " ", "s",
       "u", "p", "e", "r", "_", "a", "d", "m", "i", "n", " ", "f", "o",
       "r", "c", "e", " ", "c", "r", "e", "a", "t", "e", " ", "a", "d",
       "m", "i", "n" >>,
    << ".", "a", "d", "m", "i", "n", " ", "f", "o", "r", "c", "e", " ",
       "c", "r", "e", "a", "t", "e", " " >> \o DefaultAdminPhone
      \o << " ", "v", "i", "e", "w", "e", "r", " ", "f", "o", "r", "c", "e",
            " ", "c", "r", "e", "a", "t", "e", " ", "a", "d", "m", "i", "n" >>,
    << ".", "a", "d", "m", "i", "n", " ", "l", "i", "s", "t", " ", "a",
       "d", "m", "i", "n", "s" >> }

\* msg.from of the accounts that write to the bot.
Senders == { DefaultAdminPhone, MemberPhone }

\* The AdminSystem object as one value.
adminSystem ==
  [adminUsers |-> adminUsers, restrictedUsers |-> restrictedUsers,
   userWarnings |-> userWarnings, auditLogs |-> auditLogs,
   auditHistory |-> auditHistory]

SetAdminSystem(a) ==
  /\ adminUsers' = a.adminUsers
  /\ restrictedUsers' = a.restrictedUsers
  /\ userWarnings' = a.userWarnings
  /\ auditLogs' = a.auditLogs
  /\ auditHistory' = a.auditHistory

\* client.on('message') for a text message that starts with '.admin'.
HandleAdminMessage(from, body) ==
  /\ nCmd < MaxAdminCommands
  /\ StartsWith(ToLowerCase(Trim(body)), << ".", "a", "d", "m", "i", "n" >>)
  /\ nCmd' = nCmd + 1
  /\ SetAdminSystem(handleAdminCommand(adminSystem, from, body, clockHours))
  /\ UNCHANGED <<clockHours, mediaPending, denied, queueVars, driveVars, mediaVars>>

\* client.on('message') for a media message, up to `await
\* msg.downloadMedia()`: a restricted sender is turned away.
MediaArrives(from) ==
  /\ from \notin mediaPending
  /\ nSub + Cardinality(mediaPending) < AdminSubmissions
  /\ LET r == isUserRestricted(adminSystem, from, clockHours)
     IN  /\ SetAdminSystem(r.a)
         /\ mediaPending' = IF r.restricted THEN mediaPending
                            ELSE mediaPending \cup {from}
         /\ denied' = IF r.restricted THEN denied \cup {from} ELSE denied
  /\ UNCHANGED <<clockHours, nCmd, queueVars, driveVars, mediaVars>>

\* The download and the write of the staged file have settled: the handler
\* calls uploadQueue.addToQueue(uploadData).
MediaStaged(from) ==
  /\ from \in mediaPending
  /\ mediaPending' = mediaPending \ {from}
  /\ \E c \in Contents, f \in Filenames : StartCall(AdminSubmissions, from, c, f)
  /\ UNCHANGED <<adminUsers, restrictedUsers, userWarnings, auditLogs,
                 auditHistory, clockHours, nCmd, denied, driveVars, mediaVars>>

\* An hour passes.
HourPasses ==
  /\ clockHours < MaxHours
  /\ clockHours' = clockHours + 1
  /\ UNCHANGED <<adminUsers, restrictedUsers, userWarnings, auditLogs,
                 auditHistory, nCmd, mediaPending, denied, queueVars, driveVars, mediaVars>>

NextAdmin ==
  \/ \E from \in Senders, body \in AdminBodies : HandleAdminMessage(from, body)
  \/ \E from \in Senders : MediaArrives(from)
  \/ \E from \in Senders : MediaStaged(from)
  \/ HourPasses

SpecAdmin == Init /\ [][NextAdmin]_vars

\* ------------------------------------------------------------------ drive
\* uploadFileToDrive(filePath, mimeType, fileName), one action per await.
\* Drive answers a request when the request settles.

\* A worker calls uploadFileToDrive: `await getDriveClient()`.
DriveCallStarts(c) ==
  /\ driveCalls[c].pc = "idle"
  /\ driveCalls' = [driveCalls EXCEPT ![c].pc = "client"]
  /\ UNCHANGED <<uploadFolderId, driveFolders, queueVars, adminVars, mediaVars>>

\* The client is there; ensureUploadFolder returns the cached id or sends
\* drive.files.list.
ClientSettles(c) ==
  /\ driveCalls[c].pc = "client"
  /\ driveCalls' = [driveCalls EXCEPT ![c] =
                      IF uploadFolderId # NoFolder
                      THEN [pc |-> "uploading", folderId |-> uploadFolderId]
                      ELSE [@ EXCEPT !.pc = "listing"]]
  /\ UNCHANGED <<uploadFolderId, driveFolders, queueVars, adminVars, mediaVars>>

\* drive.files.list answers: a folder found is cached and returned,
\* otherwise drive.files.create is sent.
ListSettles(c) ==
  /\ driveCalls[c].pc = "listing"
  /\ IF driveFolders # {}
     THEN \E id \in driveFolders :
            /\ uploadFolderId' = id
            /\ driveCalls' = [driveCalls EXCEPT ![c] =
                                [pc |-> "uploading", folderId |-> id]]
     ELSE /\ driveCalls' = [driveCalls EXCEPT ![c].pc = "creating"]
          /\ UNCHANGED uploadFolderId
  /\ UNCHANGED <<driveFolders, queueVars, adminVars, mediaVars>>

\* drive.files.create answers with the new folder: its id is cached and
\* drive.permissions.create is sent.
CreateSettles(c) ==
  /\ driveCalls[c].pc = "creating"
  /\ driveFolders' = driveFolders \cup {NewFolderId}
  /\ uploadFolderId' = NewFolderId
  /\ driveCalls' = [driveCalls EXCEPT ![c].pc = "permission"]
  /\ UNCHANGED <<queueVars, adminVars, mediaVars>>

\* drive.permissions.create answers: `return uploadFolderId`.
PermissionSettles(c) ==
  /\ driveCalls[c].pc = "permission"
  /\ driveCalls' = [driveCalls EXCEPT ![c] =
                      [pc |-> "uploading", folderId |-> uploadFolderId]]
  /\ UNCHANGED <<uploadFolderId, driveFolders, queueVars, adminVars, mediaVars>>

\* The file is created with parents: [folderId] and its link is returned.
UploadSettles(c) ==
  /\ driveCalls[c].pc = "uploading"
  /\ driveCalls' = [driveCalls EXCEPT ![c].pc = "done"]
  /\ UNCHANGED <<uploadFolderId, driveFolders, queueVars, adminVars, mediaVars>>

\* A request to Drive is rejected: the call throws.
RequestRejects(c) ==
  /\ driveCalls[c].pc \in {"listing", "creating", "permission", "uploading"}
  /\ driveCalls' = [driveCalls EXCEPT ![c].pc = "failed"]
  /\ UNCHANGED <<uploadFolderId, driveFolders, queueVars, adminVars, mediaVars>>

\* googleDrive.js once loaded, with or without a folder of an earlier run.
InitDrive ==
  /\ uploadFolderId = NoFolder
  /\ driveFolders \in { {}, {ExistingFolder} }
  /\ driveCalls = [c \in DriveCallIds |-> NoDriveCall]
  /\ AdminInit
  /\ MediaIdle
  /\ QueueInit({1})

NextDrive ==
  \/ \E c \in DriveCallIds : DriveCallStarts(c)
  \/ \E c \in DriveCallIds : ClientSettles(c)
  \/ \E c \in DriveCallIds : ListSettles(c)
  \/ \E c \in DriveCallIds : CreateSettles(c)
  \/ \E c \in DriveCallIds : PermissionSettles(c)
  \/ \E c \in DriveCallIds : UploadSettles(c)
  \/ \E c \in DriveCallIds : RequestRejects(c)

SpecDrive == InitDrive /\ [][NextDrive]_vars

\* ------------------------------------------------------------------ audit
\* The audit log loadAdminConfig reads from a configuration file that an
\* earlier run saved with n entries.
LoadedAuditLogs(n) ==
  [k \in 1 .. n |-> [action |-> "user_warned", performedBy |-> DefaultAdminName,
                     targetUser |-> MemberPhone, serial |-> k]]

InitAudit ==
  /\ \E n \in { 0, AuditLogLimit - 2, AuditLogLimit - 1, AuditLogLimit } :
       /\ auditLogs = LoadedAuditLogs(n)
       /\ auditHistory = LoadedAuditLogs(n)
  /\ adminUsers = NewAdminSystem.adminUsers
  /\ restrictedUsers = NewAdminSystem.restrictedUsers
  /\ userWarnings = NewAdminSystem.userWarnings
  /\ clockHours = 0
  /\ nCmd = 0
  /\ mediaPending = {}
  /\ denied = {}
  /\ DriveIdle
  /\ MediaIdle
  /\ QueueInit({1})

NextAudit ==
  \E from \in Senders, body \in AdminBodies : HandleAdminMessage(from, body)

SpecAudit == InitAudit /\ [][NextAudit]_vars

\* ------------------------------------------------------------------ deduplication
\* client.on('message') for the message (a media message of a private
\* chat), lines 139-156 and on: a key that is in the set ends the handler;
\* otherwise the key is added, its deletion is scheduled and the handler
\* goes on to stage the media and call addToQueue.
Deliver ==
  /\ nDeliveries < MaxDeliveries
  /\ nDeliveries' = nDeliveries + 1
  /\ IF MessageKey \in processedMessages
     THEN UNCHANGED <<processedMessages, dedupTimers, handledAt, queueVars>>
     ELSE /\ processedMessages' = processedMessages \cup {MessageKey}
          /\ dedupTimers' = Append(dedupTimers,
                                   <<MessageKey,
                                     uptime + ClockSteps(MESSAGE_DEDUP_TIMEOUT)>>)
          /\ handledAt' = Append(handledAt, uptime)
          /\ StartCall(MaxDeliveries, MessageKey[1], 1, "f")
  /\ UNCHANGED tempDir
  /\ UNCHANGED <<cleanupDue, uptime, adminVars, driveVars>>

\* A setTimeout callback of line 154 runs: processedMessages.delete(key).
TimeoutFires(k) ==
  /\ k \in 1 .. Len(dedupTimers)
  /\ dedupTimers[k][2] <= uptime
  /\ processedMessages' = processedMessages \ { dedupTimers[k][1] }
  /\ dedupTimers' = SubSeq(dedupTimers, 1, k - 1)
                    \o SubSeq(dedupTimers, k + 1, Len(dedupTimers))
  /\ UNCHANGED <<cleanupDue, uptime, nDeliveries, handledAt, tempDir,
                 queueVars, adminVars, driveVars>>

\* The setInterval callback of lines 71-79 runs.
PeriodicCleanup ==
  /\ cleanupDue <= uptime
  /\ processedMessages' = { key \in processedMessages : ~Expired(key, uptime) }
  /\ cleanupDue' = cleanupDue + ClockSteps(CleanupInterval)
  /\ UNCHANGED <<dedupTimers, uptime, nDeliveries, handledAt, tempDir,
                 queueVars, adminVars, driveVars>>

\* Ten seconds pass; the timers that are due have run.
TenSecondsPass ==
  /\ uptime < MaxUptime
  /\ cleanupDue > uptime
  /\ \A k \in 1 .. Len(dedupTimers) : dedupTimers[k][2] > uptime
  /\ uptime' = uptime + 1
  /\ UNCHANGED <<processedMessages, dedupTimers, cleanupDue, nDeliveries,
                 handledAt, tempDir, queueVars, adminVars, driveVars>>

\* The process has been up for a while when the message is created: the
\* next periodic cleanup is at most one interval away.
InitDedup ==
  /\ processedMessages = {}
  /\ dedupTimers = << >>
  /\ cleanupDue \in 1 .. ClockSteps(CleanupInterval)
  /\ uptime = 0
  /\ nDeliveries = 0
  /\ handledAt = << >>
  /\ tempDir = [f \in TempNames |-> NoFile]
  /\ AdminInit
  /\ DriveIdle
  /\ QueueInit({1})

NextDedup ==
  \/ Deliver
  \/ \E k \in 1 .. MaxDeliveries : TimeoutFires(k)
  \/ PeriodicCleanup
  \/ TenSecondsPass

SpecDedup == InitDedup /\ [][NextDedup]_vars

\* ------------------------------------------------------------------ staging
\* The media handler of index.js, lines 222-239: the download is written to
\* tempFilePath = path.join(TEMP_DIR, filename), whatever is at that path,
\* and addToQueue is called with filePath: tempFilePath.
StageMedia(userId, content, filename) ==
  /\ StartCall(StagingSubmissions, userId, content, filename)
  /\ tempDir' = [tempDir EXCEPT ![filename] = nSub + 1]
  /\ UNCHANGED <<adminVars, driveVars, dedupVars>>

\* The handler's fsExtra.remove(tempFilePath) of a duplicate (line 244).
HandlerRemoves(s) ==
  /\ HandlerRemoveSettles(s)
  /\ tempDir' = [tempDir EXCEPT ![sub[s].filename] = NoFile]
  /\ UNCHANGED <<adminVars, driveVars, dedupVars>>

\* The worker's fs.remove(uploadItem.filePath) after the completion reply
\* (part_001, line 172).
QueueRemoves(i) ==
  /\ RemoveSettles(i)
  /\ tempDir' = [tempDir EXCEPT ![items[i].filename] = NoFile]
  /\ UNCHANGED <<adminVars, driveVars, dedupVars>>

\* A step of addToQueue or of a worker that touches no file.
NoFileTouched == UNCHANGED <<adminVars, driveVars, mediaVars>>

NextStaging ==
  \/ \E u \in Users, c \in Contents, f \in TempNames : StageMedia(u, c, f)
  \/ \E s \in SubIds : HandlerRemoves(s)
  \/ \E i \in SubIds : QueueRemoves(i)
  \/ (\E s \in SubIds, r \in BOOLEAN : HashSettles(s, r)) /\ NoFileTouched
  \/ (\E s \in SubIds : AfterDuplicateCheck(s)) /\ NoFileTouched
  \/ (\E s \in SubIds, d \in BOOLEAN : ReplyDuplicate(s, d)) /\ NoFileTouched
  \/ (\E s \in SubIds, d \in BOOLEAN : ReplyQueued(s, d)) /\ NoFileTouched
  \/ RunImmediate /\ NoFileTouched
  \/ (\E i \in SubIds : UploadResolves(i)) /\ NoFileTouched
  \/ (\E i \in SubIds : UploadRejects(i)) /\ NoFileTouched
  \/ (\E i \in SubIds, d \in BOOLEAN : ReplyCompleted(i, d)) /\ NoFileTouched
  \/ (\E i \in SubIds, d \in BOOLEAN : ReplyFailed(i, d)) /\ NoFileTouched

SpecStaging == Init /\ [][NextStaging]_vars

\* ------------------------------------------------------------------ cleanup
\* A call of uploadQueue.clearOldCompletedUploads() with the default
\* maxAge, as a program embedding the queue would make it (nothing in this
\* repository does): Date.now() is read and the old records are deleted.
ClearOldCompletedUploads ==
  /\ \E t \in ClockReadings :
       /\ now' = t
       /\ completedUploads' = clearOldCompletedUploads(completedUploads, t)
  /\ UNCHANGED <<maxConcurrent, queue, activeUploads, stats, items, sub, nSub,
                 immediates, adminVars, driveVars, mediaVars>>

NextCleanup == Next \/ ClearOldCompletedUploads

SpecCleanup == Init /\ [][NextCleanup]_vars

\* ------------------------------------------------------------------ claims
Terminal(i) == items[i].status \in {"completed", "failed"}

\* The addToQueue call s got a digest (the hash stream did not fail).
Hashed(s) == sub[s].isDuplicate \/ sub[s].fileHash # NoKey

\* No code is pending: every addToQueue call has settled, every worker has
\* ended and no setImmediate callback waits.  From such a state the queue
\* object changes only if a new submission arrives.
AtRest ==
  /\ \A s \in SubIds : sub[s].pc \in {"idle", "settled"}
  /\ \A i \in SubIds : items[i].wpc \in {"none", "done", "rejected"}
  /\ immediates = 0

\* C1: the number of items in activeUploads never exceeds maxConcurrent.
C1_ActiveWithinLimit == Cardinality(activeUploads) <= maxConcurrent

\* C1 witness: the active set is full while an acknowledged item waits.
C1_Witness ==
  /\ Cardinality(activeUploads) = maxConcurrent
  /\ \E s \in SubIds : sub[s].result = "queued" /\ items[s].status = "queued"

\* C2: two settled submissions of the same content by the same user, both
\* hashed, give one Queued and one Duplicate outcome, and at most one of
\* them is handed to the storage client.
C2_OneQueuedOneDuplicate ==
  \A s, t \in SubIds :
    ( /\ s # t
      /\ sub[s].userId = sub[t].userId /\ sub[s].content = sub[t].content
      /\ Hashed(s) /\ Hashed(t)
      /\ sub[s].result \in {"queued", "duplicate"}
      /\ sub[t].result \in {"queued", "duplicate"} )
    => /\ {sub[s].result, sub[t].result} = {"queued", "duplicate"}
       /\ ~(items[s].startedAt # NoTime /\ items[t].startedAt # NoTime)

\* C3: stats.total = stats.completed + stats.failed + stats.inProgress +
\* queue.length in every reachable state.
C3_CounterConsistency ==
  stats.total = stats.completed + stats.failed + stats.inProgress + Len(queue)

\* C3 witness: an item whose completion message threw has been counted as
\* completed and as failed, while another item is still in the backlog.
C3_Witness ==
  /\ \E i \in SubIds : items[i].error = "NotificationError"
  /\ stats.completed > 0 /\ stats.failed > 0
  /\ Len(queue) > 0

\* C4: once an item is completed or failed, its status, share link, error
\* and startedAt/completedAt never change.
C4_TerminalImmutable ==
  [][\A i \in SubIds :
       Terminal(i) =>
         /\ items'[i].status = items[i].status
         /\ items'[i].shareLink = items[i].shareLink
         /\ items'[i].error = items[i].error
         /\ items'[i].startedAt = items[i].startedAt
         /\ items'[i].completedAt = items[i].completedAt]_vars

\* C5: if no storage upload has succeeded and every pending step has run,
\* every item that was appended to the backlog has left it and is failed:
\* a failed upload does not block the items behind it.  Stated for the runs
\* in which every addToQueue call returned normally, so that only the
\* worker's handling of a failed upload is in question.
C5_DrainsWhenUploadsFail ==
  ( /\ \A i \in SubIds : items[i].shareLink = NoLink
    /\ \A s \in SubIds : sub[s].result # "rejected"
    /\ AtRest )
  => \A i \in SubIds : items[i].status # "none" => items[i].status = "failed"

\* C6: with maxConcurrent = 1, items become terminal in the order in which
\* they were appended to the backlog: an item is terminal only if every
\* item appended before it is.
C6_FifoCompletion ==
  maxConcurrent = 1 =>
    \A i, j \in SubIds :
      ( /\ items[i].arrival > 0
        /\ items[i].arrival < items[j].arrival
        /\ Terminal(j) )
      => Terminal(i)

\* C6 witness: with maxConcurrent = 1 two items are terminal, and the second
\* was appended while the first was still in the backlog.
C6_Witness ==
  /\ maxConcurrent = 1
  /\ \E i, j \in SubIds :
       /\ items[i].arrival = 1 /\ items[j].arrival = 2
       /\ sub[j].position = 2
       /\ Terminal(i) /\ Terminal(j)

\* C7: a submission is answered Duplicate only with the link of a successful
\* upload of the same content by the same user; other users' uploads never
\* suppress it and their links are never shown.
C7_DuplicatePerUser ==
  \A s \in SubIds :
    sub[s].isDuplicate =>
      LET l == sub[s].existingFile.shareLink
      IN  /\ l \in SubIds
          /\ items[l].userId = sub[s].userId
          /\ items[l].fileHash = generateFileHash(sub[s].content)
          /\ items[l].shareLink = l

\* C7 witness: user B's lookup ran when the table held another user's record
\* for the same content; B was queued and its own upload succeeded.
C7_Witness ==
  \E s \in SubIds, u \in Users :
    /\ u # sub[s].userId
    /\ sub[s].fileHash # NoKey
    /\ UserKey(u, sub[s].fileHash) \in sub[s].seen
    /\ sub[s].result = "queued"
    /\ items[s].shareLink = DriveLink(s)

\* A notification (reply) throws in this step.
NotificationThrows ==
  \/ \E s \in SubIds : ReplyDuplicate(s, FALSE) \/ ReplyQueued(s, FALSE)
  \/ \E i \in SubIds : ReplyCompleted(i, FALSE) \/ ReplyFailed(i, FALSE)

\* C8: a throwing notification is swallowed: neither addToQueue nor the
\* worker rejects, and item status, backlog, active set and stats stay as
\* they were.
C8_NotificationErrorsSwallowed ==
  [][NotificationThrows =>
       /\ UNCHANGED <<queue, activeUploads, stats>>
       /\ \A i \in SubIds : items'[i].status = items[i].status
       /\ \A s \in SubIds : sub'[s].result # "rejected"
       /\ \A i \in SubIds : items'[i].wpc # "rejected"]_vars

\* C9: a worker that has ended (after its item became terminal) has called
\* setImmediate(processQueue), whatever its notifications did.
C9_AlwaysReschedules ==
  \A i \in SubIds :
    (Terminal(i) /\ items[i].wpc \in {"done", "rejected"}) => items[i].rescheduled

\* C10: no item is left in the backlog once every pending step has run:
\* every appended item enters processing.
C10_NoStarvation ==
  AtRest => \A i \in SubIds : items[i].status # "queued"

\* The addToQueue call s took (or is taking) the duplicate branch.
FoundRecord(s) == sub[s].isDuplicate

\* C11: an addToQueue call that finds a DuplicateRecord returns Duplicate
\* with that record's link; its steps leave the backlog, the active set,
\* the DuplicateRecord table and the stats counters as they were, and no
\* item and no storage upload call exist for that submission.
C11_DuplicateBranchFrame ==
  /\ [](\A s \in SubIds :
         (FoundRecord(s) /\ sub[s].pc = "settled")
         => /\ sub[s].result = "duplicate"
            /\ sub[s].existingFile.shareLink # NoLink
            /\ items[s] = NoItem)
  /\ [][\A s \in SubIds :
         ( \/ (sub[s].pc = "checked" /\ FoundRecord(s) /\ AfterDuplicateCheck(s))
           \/ \E d \in BOOLEAN : ReplyDuplicate(s, d) )
         => UNCHANGED <<queue, activeUploads, completedUploads, stats>>]_vars

\* The worker of item i has ended (returned or rejected).
WorkerEnded(i) == items[i].wpc \in {"done", "rejected"}

InQueue(i) == \E k \in 1 .. Len(queue) : queue[k] = i

\* C12: a failed item stays failed and is never in the backlog or the
\* active set again, and uploadFileToDrive is called at most once per item.
C12_FailedIsTerminal ==
  /\ [](\A i \in SubIds :
         /\ items[i].uploadCalls <= 1
         /\ items[i].status = "failed" => (~InQueue(i) /\ i \notin activeUploads))
  /\ [][\A i \in SubIds :
         items[i].status = "failed"
         => /\ items'[i].status = "failed"
            /\ items'[i].uploadCalls = items[i].uploadCalls]_vars

\* C12 witness: an item whose upload failed has been through its whole
\* worker, and processQueue ran afterwards and took a later item to its end.
C12_Witness ==
  \E i, j \in SubIds :
    /\ items[i].status = "failed" /\ items[i].error = "UploadError"
    /\ WorkerEnded(i) /\ items[i].uploadCalls = 1
    /\ items[j].arrival > items[i].arrival
    /\ items[j].startedAt # NoTime /\ WorkerEnded(j)
    /\ immediates = 0

\* C13: an item whose worker has ended got exactly one terminal notice: the
\* completion notice if its storage upload succeeded, the failure notice
\* with the storage client's error if it failed.
C13_OneMatchingNotice ==
  \A i \in SubIds :
    (Terminal(i) /\ WorkerEnded(i))
    => IF items[i].shareLink # NoLink
       THEN items[i].notices = {"completed"}
       ELSE items[i].notices = {"failed"} /\ items[i].error = "UploadError"

\* C14: an addToQueue call whose hash stream failed does not take the
\* duplicate branch and does not settle with the hashing error: it goes on
\* to append an item without digest and key, which is admitted like any
\* other (and leaves no DuplicateRecord).
C14_HashFailureProceeds ==
  \A s \in SubIds :
    (sub[s].pc \notin {"idle", "hashing"} /\ ~sub[s].readable)
    => /\ ~sub[s].isDuplicate /\ sub[s].result # "duplicate"
       /\ sub[s].fileHash = NoKey /\ sub[s].userKey = NoKey
       /\ sub[s].pc # "checked"
          => /\ items[s].status # "none"
             /\ items[s].fileHash = NoKey /\ items[s].userKey = NoKey
             /\ sub[s].position > 0

\* C14 witness: the hash stream of a submission failed while the table held
\* the same user's record for the same content; the submission was queued
\* and its upload has succeeded.
C14_Witness ==
  \E s \in SubIds :
    /\ ~sub[s].readable /\ sub[s].result = "queued"
    /\ UserKey(sub[s].userId, generateFileHash(sub[s].content)) \in sub[s].seen
    /\ items[s].shareLink = DriveLink(s)
    /\ items[s].status = "completed"

\* C18: a DuplicateRecord that is in the table keeps its link, timestamp
\* and filename for as long as it is in the table: no later upload
\* overwrites it.
C18_RecordNeverOverwritten ==
  [][\A k \in DOMAIN completedUploads :
       k \in DOMAIN completedUploads' => completedUploads'[k] = completedUploads[k]]_vars

\* C19: the queue never calls remove on a staged file, and the staged file
\* of a submission is removed from at most one place.
C19_CoreNeverDeletes ==
  \A s \in SubIds :
    /\ "queue" \notin sub[s].removedBy
    /\ Cardinality(sub[s].removedBy) <= 1

\* C20: once no code is pending, the staged file of every submission that
\* ended as duplicate, completed or failed has been removed.
C20_StagedFileDeleted ==
  AtRest =>
    \A s \in SubIds :
      (sub[s].result = "duplicate" \/ Terminal(s)) => sub[s].removedBy # {}

\* The item that was appended to the backlog as the k-th.
Arrived(k) == CHOOSE i \in SubIds : items[i].arrival = k

AllArrived == \A k \in 1 .. ScenarioSubmissions : \E i \in SubIds : items[i].arrival = k

\* All three calls returned Queued.
AllQueuedReturned == \A s \in 1 .. ScenarioSubmissions : sub[s].result = "queued"

\* No storage upload has settled yet.
NoUploadSettled == \A i \in SubIds : items[i].wpc \in {"none", "uploading"}

\* A has completed: its worker ran to its end and the processQueue run it
\* scheduled has run.
FirstCompleted ==
  /\ items[Arrived(1)].status = "completed"
  /\ items[Arrived(1)].wpc = "done"
  /\ immediates = 0

\* C15 as stated: once A, B and C have been accepted, A and B are processing
\* and C is queued, reported at position 3; once A has completed, C is no
\* longer queued.
C15_ThirdAtPositionThree ==
  (AllArrived /\ AllQueuedReturned)
  => /\ NoUploadSettled
        => /\ items[Arrived(1)].status = "processing"
           /\ items[Arrived(2)].status = "processing"
           /\ items[Arrived(3)].status = "queued"
     /\ sub[Arrived(3)].position = 3
     /\ FirstCompleted => items[Arrived(3)].status # "queued"

\* C15 amended: as above, but the position reported to a submission is the
\* length of the backlog right after its item was appended, i.e. the
\* number of items then waiting, itself included.
C15_PositionIsBacklogLength ==
  /\ []((AllArrived /\ AllQueuedReturned)
        => /\ NoUploadSettled
              => /\ items[Arrived(1)].status = "processing"
                 /\ items[Arrived(2)].status = "processing"
                 /\ items[Arrived(3)].status = "queued"
           /\ FirstCompleted => items[Arrived(3)].status # "queued")
  /\ [][\A s \in SubIds :
         (sub[s].pc = "checked" /\ sub'[s].pc = "replyQueued")
         => sub'[s].position =
              Cardinality({ i \in SubIds : items'[i].status = "queued" })]_vars

\* C15 witness: C was appended when A and B were already processing and was
\* told position 1; A has completed and C has been admitted.
C15_Witness ==
  /\ AllArrived /\ AllQueuedReturned
  /\ sub[Arrived(3)].position = 1
  /\ FirstCompleted
  /\ items[Arrived(2)].status = "processing"
  /\ items[Arrived(3)].status = "processing"

\* C16: progress is always within 0..100; while the item is processing it
\* is at most 90 and no step lowers it; it is 100 only for an item that
\* completed (its storage upload succeeded and gave it its link).
C16_ProgressBounds ==
  /\ [](\A i \in SubIds :
         /\ items[i].progress \in 0 .. 100
         /\ items[i].status = "processing" => items[i].progress <= 90
         /\ items[i].progress = 100 => items[i].shareLink # NoLink)
  /\ [][\A i \in SubIds :
         items[i].status = "processing"
         => items'[i].progress >= items[i].progress]_vars

\* C16 witness: the ticker has run six times on an item that is still
\* processing: it reached the high-water mark and the last run held it.
C16_Witness ==
  \E i \in SubIds :
    /\ items[i].status = "processing"
    /\ items[i].progress = 90
    /\ items[i].emitted >= 6

\* C17: for an item that has left processing, no step emits a progress
\* event or changes its progress.
C17_TickerSilentAfterTerminal ==
  [][\A i \in SubIds :
       Terminal(i)
       => /\ items'[i].emitted = items[i].emitted
          /\ items'[i].progress = items[i].progress]_vars

\* C17 witness: the ticker emitted events while the item was processing,
\* then ran once after the upload had failed and cleared its interval.
C17_Witness ==
  \E i \in SubIds :
    /\ items[i].status = "failed" /\ items[i].error = "UploadError"
    /\ items[i].timer = "cleared"
    /\ items[i].emitted > 0 /\ items[i].progress < 90

\* C21: stats.inProgress is the size of the active set (so it is never
\* negative), and getStatus reports the same number as activeUploads and
\* as stats.inProgress.
C21_InProgressIsActiveSize ==
  /\ stats.inProgress = Cardinality(activeUploads)
  /\ stats.inProgress >= 0
  /\ getStatus.activeUploads = getStatus.stats.inProgress

\* The steps that handle the failed upload of item i: the catch block and
\* the failure reply.
HandlesUploadFailure(i) ==
  \/ UploadRejects(i)
  \/ items[i].error = "UploadError" /\ \E d \in BOOLEAN : ReplyFailed(i, d)

C23_StaleRecordsPruned ==
  AtRest => completedUploads = clearOldCompletedUploads(completedUploads, now)

\* The DuplicateRecords written by uploads of user u.
OwnRecords(u) ==
  { key \in DOMAIN completedUploads :
      \E i \in SubIds : items[i].userId = u /\ items[i].userKey = key
                        /\ items[i].shareLink # NoLink }

\* C24: for every user u, getUserStatus(u) gives the number of u's items in
\* the backlog, of u's items in the active set and of u's own
\* DuplicateRecords, and their sum as total; nothing of another user is
\* counted.
C24_UserStatusCountsOwn ==
  \A u \in Users :
    LET r == getUserStatus(u)
    IN  /\ r.queue = Cardinality({ i \in SubIds : InQueue(i) /\ items[i].userId = u })
        /\ r.active = Cardinality({ i \in activeUploads : items[i].userId = u })
        /\ r.completed = Cardinality(OwnRecords(u))
        /\ r.total = r.queue + r.active + r.completed

\* The role the sender of an admin message holds when the message arrives;
\* the empty string for an account that is no admin.
RoleOf(from) ==
  IF isAdmin(adminSystem, from) THEN getAdminUser(adminSystem, from).role
  ELSE << >>

\* C25: a state-changing admin command takes effect only when the caller's
\* role holds the corresponding permission: a command sent by a Viewer
\* changes neither the admins, nor the restrictions, nor the warnings, and a
\* command sent by a Moderator changes neither the admins nor the
\* restrictions.
C25_ChangeNeedsPermission ==
  [][\A from \in Senders, body \in AdminBodies :
       HandleAdminMessage(from, body) =>
         /\ RoleOf(from) = Role_viewer =>
              UNCHANGED <<adminUsers, restrictedUsers, userWarnings>>
         /\ RoleOf(from) = Role_moderator =>
              UNCHANGED <<adminUsers, restrictedUsers>>]_vars

\* The accounts that hold the super_admin role in the table users.
SuperAdmins(users) ==
  { phone \in DOMAIN users : users[phone].role = Role_super_admin }

\* C26: only a super admin can create a super admin: an admin command whose
\* sender is no super admin leaves no account with the super_admin role that
\* did not hold it before.
C26_OnlySuperAdminCreatesSuperAdmin ==
  [][\A from \in Senders, body \in AdminBodies :
       HandleAdminMessage(from, body) /\ RoleOf(from) # Role_super_admin =>
         SuperAdmins(adminUsers') \subseteq SuperAdmins(adminUsers)]_vars

\* phone has a restriction in the table restricted that is active and, at
\* hour h, not expired: it has no duration, or fewer hours than its duration
\* have elapsed.
HasRestriction(restricted, h, phone) ==
  /\ phone \in DOMAIN restricted
  /\ restricted[phone].active
  /\ \/ restricted[phone].duration = NoDuration
     \/ restricted[phone].duration.nan
     \/ h - restricted[phone].restrictedAt < restricted[phone].duration.n

\* No media message is handed to the upload queue while its sender has an
\* active, unexpired restriction.
C27_RestrictedNeverSubmitted ==
  \A from \in Senders :
    MediaStaged(from) => ~HasRestriction(restrictedUsers, clockHours, from)

\* A media message that arrives while its sender has an active, unexpired
\* restriction is turned away.
C27_RestrictedTurnedAway ==
  \A from \in Senders :
    MediaArrives(from) /\ HasRestriction(restrictedUsers, clockHours, from)
      => mediaPending' = mediaPending /\ from \in denied'

\* A media message that arrives when the d hours of its sender's restriction
\* have elapsed is accepted.
C27_TemporaryExpires ==
  \A from \in Senders :
    MediaArrives(from) /\ ~HasRestriction(restrictedUsers, clockHours, from)
      => from \in mediaPending'

\* After an admin's unrestrict command for a restricted account, the account
\* has no restriction.
C27_UnrestrictLifts ==
  \A from \in Senders :
    /\ HandleAdminMessage(from, Body_Unrestrict)
    /\ isAdmin(adminSystem, from)
    /\ MemberPhone \in DOMAIN restrictedUsers
    => ~HasRestriction(restrictedUsers', clockHours', MemberPhone)

\* C27: while a user has an active, unexpired restriction, no media message
\* of that user is submitted to the upload queue; a restriction of d hours
\* stops applying once d hours have elapsed; and after the unrestrict command
\* the user is not restricted.
C27_RestrictionGatesMedia ==
  [][/\ C27_RestrictedNeverSubmitted
     /\ C27_TemporaryExpires
     /\ C27_UnrestrictLifts]_vars

\* C28: every admin command that changes the admins, the restrictions or the
\* warnings appends one entry to the audit log, and the entry names the admin
\* who sent the command.
C28_ChangeIsAudited ==
  [][\A from \in Senders, body \in AdminBodies :
       /\ HandleAdminMessage(from, body)
       /\ <<adminUsers, restrictedUsers, userWarnings>>'
            # <<adminUsers, restrictedUsers, userWarnings>>
       => /\ Len(auditLogs') = Len(auditLogs) + 1
          /\ SubSeq(auditLogs', 1, Len(auditLogs)) = auditLogs
          /\ auditLogs'[Len(auditLogs')].performedBy
               = getAdminUser(adminSystem, from).name]_vars

\* C29: the audit log never holds more than 1000 entries, and it holds the
\* most recent entries ever logged (all of them, or the last 1000) in the
\* order in which they were logged.
C29_AuditLogBounded ==
  /\ Len(auditLogs) <= AuditLogLimit
  /\ Len(auditLogs) = IF Len(auditHistory) > AuditLogLimit
                      THEN AuditLogLimit ELSE Len(auditHistory)
  /\ \A k \in 1 .. Len(auditLogs) :
       auditLogs[k] = auditHistory[Len(auditHistory) - Len(auditLogs) + k]

\* The bound has been exceeded more than once and the log trimmed each time.
C29_Witness ==
  /\ Len(auditHistory) >= AuditLogLimit + 2
  /\ Len(auditLogs) = AuditLogLimit
  /\ auditLogs[AuditLogLimit].serial = Len(auditHistory)

\* The folders the calls of this run have created.
CreatedFolders == driveFolders \ {ExistingFolder}

\* C30: however the uploadFileToDrive calls interleave, the upload folder is
\* created at most once and all uploads go to the same folder id.
C30_OneUploadFolder ==
  /\ Cardinality(CreatedFolders) <= 1
  /\ \A c, d \in DriveCallIds :
       /\ driveCalls[c].pc \in {"uploading", "done"}
       /\ driveCalls[d].pc \in {"uploading", "done"}
       => driveCalls[c].folderId = driveCalls[d].folderId

\* A step in which processQueue() is invoked: after a delivered queued
\* acknowledgment, or from the setImmediate callback.
InvokesProcessQueue ==
  \/ RunImmediate
  \/ \E s \in SubIds : ReplyQueued(s, TRUE)

\* C31: an invocation of processQueue admits items until the active set
\* holds maxConcurrent items or the queue is empty: when it returns, no item
\* is left queued next to a free slot.
C31_AdmitsUntilFull ==
  [][InvokesProcessQueue =>
       \/ Cardinality(activeUploads') >= maxConcurrent
       \/ Len(queue') = 0]_vars

\* C32: items enter processing in the order in which they were appended to
\* the queue: a step that moves an item from queued to processing takes the
\* item that was appended before every other item still in the queue.
C32_FifoAdmission ==
  [][\A i \in SubIds :
       items[i].status = "queued" /\ items'[i].status = "processing" =>
         \A k \in 1 .. Len(queue) :
           items[queue[k]].arrival >= items[i].arrival]_vars

\* C32 witness: with maxConcurrent = 2 an item is processing that was
\* appended while an earlier item was still queued, and that earlier item
\* was admitted before it.
C32_Witness ==
  /\ maxConcurrent = 2
  /\ \E i, j \in SubIds :
       /\ items[i].arrival = 1 /\ items[j].arrival = 2
       /\ sub[j].position = 2
       /\ items[i].status = "processing" /\ items[j].status = "processing"
       /\ items[i].startedAt < items[j].startedAt

\* Every item in the queue is queued, every item in the active set is
\* processing, no item is in both, and no terminal item is in either.
C33_PlaceMatchesStatus ==
  /\ \A k \in 1 .. Len(queue) : items[queue[k]].status = "queued"
  /\ \A i \in activeUploads : items[i].status = "processing"
  /\ \A i \in SubIds : ~(InQueue(i) /\ i \in activeUploads)
  /\ \A i \in SubIds : Terminal(i) => ~InQueue(i) /\ i \notin activeUploads

\* A step changes an item's status only from queued to processing or from
\* processing to completed or failed (none: the item does not exist yet).
C33_StatusMovesForward ==
  \A i \in SubIds :
    items'[i].status # items[i].status =>
      \/ items[i].status = "none" /\ items'[i].status = "queued"
      \/ items[i].status = "queued" /\ items'[i].status = "processing"
      \/ /\ items[i].status = "processing"
         /\ items'[i].status \in {"completed", "failed"}

\* C33: in every reachable state the queue holds queued items only, the
\* active set holds processing items only, no item is in both and no terminal
\* item is in either; and a status only moves queued -> processing ->
\* completed or failed.
C33_StatusLifecycle ==
  []C33_PlaceMatchesStatus /\ [][C33_StatusMovesForward]_vars

\* C35: no item is counted both as completed and as failed:
\* stats.completed + stats.failed is the number of terminal items.
C35_TerminalCountedOnce ==
  stats.completed + stats.failed = Cardinality({ i \in SubIds : Terminal(i) })

\* No code of the queue is pending: every addToQueue call has settled, no
\* worker is between the end of its upload and its own end, and no
\* setImmediate callback waits.  Uploads may be in flight.
NoHandlerPending ==
  /\ \A s \in SubIds : sub[s].pc \in {"idle", "settled"}
  /\ \A i \in SubIds : items[i].wpc \in {"none", "uploading", "done", "rejected"}
  /\ immediates = 0

\* C36: whenever no addToQueue call and no completion handler is pending,
\* the queue is non-empty only if the active set holds maxConcurrent items.
C36_WorkConservation ==
  NoHandlerPending => (Len(queue) > 0 => AtCapacity)

\* C34: a message delivered more than once within the 30-second
\* deduplication window is handled once: no two deliveries of the message
\* that are less than 30 seconds apart are both handled (each handled
\* delivery of a media message makes one addToQueue call).
C34_HandledOncePerWindow ==
  \A a, b \in 1 .. Len(handledAt) :
    a < b => handledAt[b] - handledAt[a] >= ClockSteps(MESSAGE_DEDUP_TIMEOUT)

\* C37: while an item is queued or processing, no step changes what is at
\* its staged path: the file is neither overwritten nor deleted before the
\* item is terminal.
C37_StagedFileKept ==
  [][\A i \in SubIds :
       items[i].status \in {"queued", "processing"}
         => tempDir'[items[i].filename] = tempDir[items[i].filename]]_vars

\* C38: a user who holds the super_admin role is neither removed nor left
\* with another role by any admin operation, and in every state some user
\* holds the super_admin role.
C38_SuperAdminKept ==
  \A p \in DOMAIN adminUsers :
    adminUsers[p].role = Role_super_admin
      => /\ p \in DOMAIN adminUsers'
         /\ adminUsers'[p].role = Role_super_admin

C38_SuperAdminExists ==
  \E p \in DOMAIN adminUsers : adminUsers[p].role = Role_super_admin

C38_SuperAdminPermanent ==
  []C38_SuperAdminExists /\ [][C38_SuperAdminKept]_vars

\* C39: a health check made while no upload has failed computes a success
\* rate of 100 and adds no low-success-rate issue, whatever is queued or in
\* progress.
C39_NoWarningWithoutFailure ==
  stats.failed = 0
    => /\ successRate(getStatus) = 10000
       /\ ~LowSuccessRateIssue(getStatus)

\* C40: a call of clearOldCompletedUploads removes exactly the records
\* whose uploadTime is more than maxAge before the time of the call; the
\* records that stay are unchanged, and so are the queue, the active set
\* and the stats counters.
C40_ClearsExactlyOld ==
  [][ClearOldCompletedUploads
       => /\ DOMAIN completedUploads' =
               { k \in DOMAIN completedUploads :
                   now' - completedUploads[k].uploadTime <= CleanupAge }
          /\ \A k \in DOMAIN completedUploads' :
               completedUploads'[k] = completedUploads[k]
          /\ UNCHANGED <<queue, activeUploads, stats>>]_vars

\* A call has removed the record of one completed upload and kept the
\* record of another, which completed at the time of the call.
C40_Witness ==
  \E i, j \in SubIds :
    /\ items[i].status = "completed"
    /\ items[i].userKey # NoKey
    /\ items[i].userKey \notin DOMAIN completedUploads
    /\ items[j].status = "completed"
    /\ items[j].userKey \in DOMAIN completedUploads
    /\ completedUploads[items[j].userKey].uploadTime = now

====
